---- MODULE Spec2Model ----
(***************************************************************************)
(* Configuration options of the BBR server (pkg/bbr/server/options.go),    *)
(* the logging options embedded in them (package logging) and the          *)
(* repeatable --plugin flag value (config.BBRPluginSpecs).                 *)
(*                                                                         *)
(* Three specifications:                                                    *)
(*   Spec         the lifecycle of server Options: NewOptions, AddFlags,    *)
(*                the flag engine's Parse, Complete, Validate;              *)
(*   SpecPlugins  repeated Set calls on a PluginSpecs collection;           *)
(*   SpecParser   the PluginSpec parser applied to one raw flag value.      *)
(*                                                                         *)
(* Go's int is modelled by TLC's integers (no value used here is near the  *)
(* width of either); zapcore.Level is an int8 and keeps its width.         *)
(***************************************************************************)
EXTENDS Integers, Sequences, FiniteSets

VARIABLES
    GRPCPort,        \* server Options.GRPCPort
    GRPCHealthPort,  \* server Options.GRPCHealthPort
    MetricsPort,     \* server Options.MetricsPort
    LogVerbosity,    \* logging Options.LogVerbosity
    ZapLevel,        \* logging Options.ZapOptions.Level: <<>> is nil, <<l>> an AtomicLevel at l
    fs,              \* logging Options.fs: [bound: is it non-nil, Changed: flag name -> Flag.Changed]
    panicked,        \* a nil dereference ended the program
    lastOp,          \* the operation that ran last
    ret,             \* the error the last operation returned
    zapArg,          \* the value --zap-log-level had on the command line (<<>>: not given)
    nComplete,       \* how many times Complete has returned (saturating at MaxCompletes)
    argsParsed,      \* the flag engine has parsed the command line
    PluginSpecs,     \* server Options.PluginSpecs: the sequence of parsed records
    setCalls,        \* the raw strings Set was called with, in call order
    raw,             \* SpecParser: the input string
    parsed           \* SpecParser: the parser's result for raw (<<>>: not parsed yet)

vars == <<GRPCPort, GRPCHealthPort, MetricsPort, LogVerbosity, ZapLevel, fs, panicked,
          lastOp, ret, zapArg, nComplete, argsParsed, PluginSpecs, setCalls, raw, parsed>>

optionVars == <<GRPCPort, GRPCHealthPort, MetricsPort, LogVerbosity, ZapLevel, fs, panicked,
                zapArg, nComplete, argsParsed>>

pluginVars == <<PluginSpecs, setCalls>>

parserVars == <<raw, parsed>>

(***************************************************************************)
(* Constants of the program.                                               *)
(***************************************************************************)
DefaultGrpcPort == 9004

DefaultGrpcHealthPort == 9005

DefaultMetricsPort == 9090

MinPort == 1

MaxPort == 65535

\* logging.DEFAULT, the default verbosity: declared in another file of package logging.
DEFAULT == 2

ZapLogLevelFlagName == "zap-log-level"

GrpcPortFlag == "grpc-port"

GrpcHealthPortFlag == "grpc-health-port"

MetricsPortFlag == "metrics-port"

VerbosityFlag == "v"

(***************************************************************************)
(* Bounds of the model.                                                    *)
(***************************************************************************)
MaxCompletes == 2

MaxCalls == 3

MaxLen == 7

\* Values the command line gives a port flag: both edges of [1, 65535] from
\* inside and outside, and a default of another port (a collision).
PortValues == {0, 1, 65535, 65536, DefaultGrpcPort}

\* Values of -v: negative, zero, ordinary, and one whose negation does not fit an int8.
VerbosityValues == {-1, 0, 3, 129}

\* Values of --zap-log-level: info (0) and error (2) in zapcore's numbering.
ZapLevelValues == {0, 2}

\* An optional command-line argument: <<>> when the flag is not given.
Optional(S) == {<<>>} \cup {<<x>> : x \in S}

(***************************************************************************)
(* Errors. A Go error is modelled by what its message is built from.       *)
(***************************************************************************)
Nil == [kind |-> "nil", flag |-> "", values |-> <<>>]

ErrInvalidLogVerbosity == [kind |-> "ErrInvalidLogVerbosity", flag |-> "", values |-> <<>>]

\* fmt.Errorf("invalid value %d for flag %q: must be between 1 and 65535", port, name)
RangeError(name, port) == [kind |-> "range", flag |-> name, values |-> <<port>>]

\* fmt.Errorf("port conflict: grpc-port (%d), grpc-health-port (%d), and metrics-port (%d) ...")
ConflictError(g, h, m) == [kind |-> "conflict", flag |-> "", values |-> <<g, h, m>>]

(***************************************************************************)
(* logging Options                                                         *)
(***************************************************************************)
\* The conversion int8(x) of a Go int: the low eight bits, two's complement.
Int8(x) == ((x + 128) % 256) - 128

\* fs.Lookup(name) != nil
Registered(f, name) == name \in DOMAIN f.Changed

ShouldDerive_IgnoreChanged(f) == Registered(f, ZapLogLevelFlagName)

\* The condition of Complete: the flag is registered and not marked changed.
ShouldDerive(f) ==
    Registered(f, ZapLogLevelFlagName) /\ ~f.Changed[ZapLogLevelFlagName]

\* lvl := -1 * verbosity; zapcore.Level(int8(lvl))
DerivedLevel(verbosity) == Int8(-1 * verbosity)

\* ZapOptions.Level after Complete.
LevelAfterComplete(f, verbosity, level) ==
    IF ShouldDerive(f) THEN <<DerivedLevel(verbosity)>> ELSE level

FlagSetAfterComplete_NoMark(f) == f

FlagSetAfterComplete_MarkAll(f) ==
    IF ShouldDerive(f)
    THEN [f EXCEPT !.Changed = [n \in DOMAIN f.Changed |-> TRUE]]
    ELSE f

\* The flag set after Complete: zapLogLevelFlag.Changed = true in the deriving branch.
FlagSetAfterComplete(f) ==
    IF ShouldDerive(f)
    THEN [f EXCEPT !.Changed[ZapLogLevelFlagName] = TRUE]
    ELSE f

LoggingValidateResult_Le(verbosity) ==
    IF verbosity <= 0 THEN ErrInvalidLogVerbosity ELSE Nil

\* logging Options.Validate
LoggingValidateResult(verbosity) ==
    IF verbosity < 0 THEN ErrInvalidLogVerbosity ELSE Nil

(***************************************************************************)
(* server Options.Validate                                                 *)
(***************************************************************************)
PortChecks_MetricsFirst(g, h, m) ==
    << [name |-> MetricsPortFlag, port |-> m],
       [name |-> GrpcPortFlag, port |-> g],
       [name |-> GrpcHealthPortFlag, port |-> h] >>

\* The slice the range loop iterates over, in its order.
PortChecks(g, h, m) ==
    << [name |-> GrpcPortFlag, port |-> g],
       [name |-> GrpcHealthPortFlag, port |-> h],
       [name |-> MetricsPortFlag, port |-> m] >>

OutOfRange_Off(port) == port < 0 \/ port > MaxPort

\* pc.port < 1 || pc.port > 65535
OutOfRange(port) == port < MinPort \/ port > MaxPort

\* The range loop from element i on: the error of the first port out of range.
RECURSIVE RangeCheck(_, _)
RangeCheck(pcs, i) ==
    IF i > Len(pcs) THEN Nil
    ELSE IF OutOfRange(pcs[i].port) THEN RangeError(pcs[i].name, pcs[i].port)
    ELSE RangeCheck(pcs, i + 1)

\* The map literal keyed by port: a later entry with an equal key replaces the earlier.
PortsMap(g, h, m) ==
    [p \in {g, h, m} |->
        IF p = m THEN MetricsPortFlag
        ELSE IF p = h THEN GrpcHealthPortFlag
        ELSE GrpcPortFlag]

PortsCollide_OnlyAdjacent(g, h, m) == g = h \/ h = m

\* len(ports) < 3
PortsCollide(g, h, m) == Cardinality(DOMAIN PortsMap(g, h, m)) < 3

\* server Options.Validate
ServerValidateResult(g, h, m, verbosity) ==
    LET rangeErr == RangeCheck(PortChecks(g, h, m), 1) IN
    IF rangeErr # Nil THEN rangeErr
    ELSE IF PortsCollide(g, h, m) THEN ConflictError(g, h, m)
    ELSE IF LoggingValidateResult(verbosity) # Nil THEN LoggingValidateResult(verbosity)
    ELSE Nil

(***************************************************************************)
(* The lifecycle of server Options.                                        *)
(***************************************************************************)
NoFlags == [n \in {} |-> FALSE]

\* The flags AddFlags registers that the model follows.
FlagNames ==
    {GrpcPortFlag, GrpcHealthPortFlag, MetricsPortFlag, VerbosityFlag, ZapLogLevelFlagName}

PluginInit ==
    /\ PluginSpecs = <<>>
    /\ setCalls = <<>>

ParserIdle ==
    /\ raw = <<>>
    /\ parsed = <<>>

\* server NewOptions, with logging NewOptions for the embedded struct.
NewOptions ==
    /\ GRPCPort = DefaultGrpcPort
    /\ GRPCHealthPort = DefaultGrpcHealthPort
    /\ MetricsPort = DefaultMetricsPort
    /\ LogVerbosity = DEFAULT
    /\ ZapLevel = <<>>
    /\ fs = [bound |-> FALSE, Changed |-> NoFlags]
    /\ panicked = FALSE
    /\ lastOp = "NewOptions"
    /\ ret = Nil
    /\ zapArg = <<>>
    /\ nComplete = 0
    /\ argsParsed = FALSE

Init ==
    /\ NewOptions
    /\ PluginInit
    /\ ParserIdle

\* server Options.AddFlags on a fresh flag set, with logging Options.AddFlags.
AddFlags ==
    /\ ~panicked
    /\ ~fs.bound
    /\ fs' = [bound |-> TRUE, Changed |-> [n \in FlagNames |-> FALSE]]
    /\ lastOp' = "AddFlags"
    /\ ret' = Nil
    /\ UNCHANGED <<GRPCPort, GRPCHealthPort, MetricsPort, LogVerbosity, ZapLevel,
                   panicked, zapArg, nComplete, argsParsed>>
    /\ UNCHANGED <<pluginVars, parserVars>>

\* The value a bound variable has after the flag engine parsed its flag.
Parsed(arg, old) == IF arg = <<>> THEN old ELSE arg[1]

\* fs.Parse(args): each flag given is stored through its binding and marked changed.
Parse ==
    /\ ~panicked
    /\ fs.bound
    /\ ~argsParsed
    /\ argsParsed' = TRUE
    /\ \E g \in Optional(PortValues), h \in Optional(PortValues), m \in Optional(PortValues),
          v \in Optional(VerbosityValues), z \in Optional(ZapLevelValues) :
        /\ GRPCPort' = Parsed(g, GRPCPort)
        /\ GRPCHealthPort' = Parsed(h, GRPCHealthPort)
        /\ MetricsPort' = Parsed(m, MetricsPort)
        /\ LogVerbosity' = Parsed(v, LogVerbosity)
        /\ ZapLevel' = IF z = <<>> THEN ZapLevel ELSE z
        /\ zapArg' = z
        /\ fs' = [fs EXCEPT !.Changed =
                    [n \in DOMAIN fs.Changed |->
                        \/ fs.Changed[n]
                        \/ (n = GrpcPortFlag /\ g # <<>>)
                        \/ (n = GrpcHealthPortFlag /\ h # <<>>)
                        \/ (n = MetricsPortFlag /\ m # <<>>)
                        \/ (n = VerbosityFlag /\ v # <<>>)
                        \/ (n = ZapLogLevelFlagName /\ z # <<>>)]]
    /\ lastOp' = "Parse"
    /\ ret' = Nil
    /\ UNCHANGED <<panicked, nComplete>>
    /\ UNCHANGED <<pluginVars, parserVars>>

\* An assignment to the exported field LogVerbosity.
SetLogVerbosity ==
    /\ ~panicked
    /\ \E v \in VerbosityValues \cup {DEFAULT} :
        /\ v # LogVerbosity
        /\ LogVerbosity' = v
    /\ lastOp' = "SetLogVerbosity"
    /\ ret' = Nil
    /\ UNCHANGED <<GRPCPort, GRPCHealthPort, MetricsPort, ZapLevel, fs, panicked,
                   zapArg, nComplete, argsParsed>>
    /\ UNCHANGED <<pluginVars, parserVars>>

\* Complete with opts.fs == nil: Lookup dereferences the nil flag set.
CompletePanics ==
    /\ ~panicked
    /\ ~fs.bound
    /\ panicked' = TRUE
    /\ lastOp' = "Complete"
    /\ ret' = Nil
    /\ UNCHANGED <<GRPCPort, GRPCHealthPort, MetricsPort, LogVerbosity, ZapLevel, fs,
                   zapArg, nComplete, argsParsed>>
    /\ UNCHANGED <<pluginVars, parserVars>>

\* server Options.Complete, which is logging Options.Complete.
Complete ==
    /\ ~panicked
    /\ fs.bound
    /\ ZapLevel' = LevelAfterComplete(fs, LogVerbosity, ZapLevel)
    /\ fs' = FlagSetAfterComplete(fs)
    /\ nComplete' = IF nComplete < MaxCompletes THEN nComplete + 1 ELSE nComplete
    /\ lastOp' = "Complete"
    /\ ret' = Nil
    /\ UNCHANGED <<GRPCPort, GRPCHealthPort, MetricsPort, LogVerbosity, panicked, zapArg,
                   argsParsed>>
    /\ UNCHANGED <<pluginVars, parserVars>>

\* logging Options.Validate, called on the embedded struct.
LoggingValidate ==
    /\ ~panicked
    /\ lastOp' = "LoggingValidate"
    /\ ret' = LoggingValidateResult(LogVerbosity)
    /\ UNCHANGED optionVars
    /\ UNCHANGED <<pluginVars, parserVars>>

\* server Options.Validate
ServerValidate ==
    /\ ~panicked
    /\ lastOp' = "ServerValidate"
    /\ ret' = ServerValidateResult(GRPCPort, GRPCHealthPort, MetricsPort, LogVerbosity)
    /\ UNCHANGED optionVars
    /\ UNCHANGED <<pluginVars, parserVars>>

Next ==
    \/ AddFlags
    \/ Parse
    \/ SetLogVerbosity
    \/ CompletePanics
    \/ Complete
    \/ LoggingValidate
    \/ ServerValidate

Spec == Init /\ [][Next]_vars

(***************************************************************************)
(* The repeatable --plugin flag: the PluginSpec parser and the PluginSpecs *)
(* collection. A string is a sequence of one-character strings.            *)
(***************************************************************************)
COLON == ":"

QUOTE == "\""

Digits == {"0", "1", "2", "3", "4", "5", "6", "7", "8", "9"}

\* The first index >= from at which s holds c; 0 when there is none.
RECURSIVE IndexFrom(_, _, _)
IndexFrom(s, c, from) ==
    IF from > Len(s) THEN 0
    ELSE IF s[from] = c THEN from
    ELSE IndexFrom(s, c, from + 1)

Rest(s, i) == SubSeq(s, i, Len(s))

RECURSIVE SplitN_Unlimited(_, _)
SplitN_Unlimited(s, n) ==
    LET i == IndexFrom(s, COLON, 1) IN
    IF i = 0 THEN <<s>>
    ELSE <<SubSeq(s, 1, i - 1)>> \o SplitN_Unlimited(Rest(s, i + 1), n)

\* s split on ':' into at most n segments (n >= 1): the last segment is the
\* unsplit remainder.
RECURSIVE SplitN(_, _)
SplitN(s, n) ==
    LET i == IndexFrom(s, COLON, 1) IN
    IF n <= 1 \/ i = 0 THEN <<s>>
    ELSE <<SubSeq(s, 1, i - 1)>> \o SplitN(Rest(s, i + 1), n - 1)

\* A JSON string starting at the quote s[i]: the index after its closing quote,
\* 0 when it is not closed. (No input of the model holds a backslash or a
\* control character.)
JSONStringEnd(s, i) ==
    LET j == IndexFrom(s, QUOTE, i + 1) IN
    IF j = 0 THEN 0 ELSE j + 1

\* The index after the run of digits starting at s[i].
RECURSIVE DigitsEnd(_, _)
DigitsEnd(s, i) ==
    IF i <= Len(s) /\ s[i] \in Digits THEN DigitsEnd(s, i + 1) ELSE i

\* A JSON number starting at the digit s[i]: no leading zero before a digit.
JSONNumberEnd(s, i) ==
    IF s[i] = "0" /\ DigitsEnd(s, i + 1) > i + 1 THEN 0 ELSE DigitsEnd(s, i)

\* The index after the JSON value that starts at s[i], 0 when there is none.
\* The values are objects, strings and unsigned integers, written without
\* white space: the forms the inputs of the model can spell.
RECURSIVE JSONValueEnd(_, _)
RECURSIVE JSONMembersEnd(_, _)
JSONValueEnd(s, i) ==
    IF i > Len(s) THEN 0
    ELSE IF s[i] = "{" THEN
        IF i + 1 <= Len(s) /\ s[i + 1] = "}" THEN i + 2 ELSE JSONMembersEnd(s, i + 1)
    ELSE IF s[i] = QUOTE THEN JSONStringEnd(s, i)
    ELSE IF s[i] \in Digits THEN JSONNumberEnd(s, i)
    ELSE 0

\* The members of an object from s[i] on, up to and including the closing brace.
JSONMembersEnd(s, i) ==
    IF i > Len(s) \/ s[i] # QUOTE THEN 0
    ELSE LET k == JSONStringEnd(s, i) IN
         IF k = 0 \/ k > Len(s) \/ s[k] # COLON THEN 0
         ELSE LET v == JSONValueEnd(s, k + 1) IN
              IF v = 0 \/ v > Len(s) THEN 0
              ELSE IF s[v] = "}" THEN v + 1
              ELSE IF s[v] = "," THEN JSONMembersEnd(s, v + 1)
              ELSE 0

\* s is one well-formed JSON document.
ValidJSON(s) == JSONValueEnd(s, 1) = Len(s) + 1

ParseError(msg, input) == [kind |-> msg, flag |-> "", values |-> input]

NoSpec(err) == [err |-> err, spec |-> <<>>]

\* The PluginSpec parser: the error, or the record (Parameters: <<>> when
\* absent, else the JSON document).
ParsePluginSpec(input) ==
    LET parts == SplitN(input, 3) IN
    IF parts[1] = <<>> THEN NoSpec(ParseError("missing type", input))
    ELSE IF Len(parts) < 2 \/ parts[2] = <<>> THEN NoSpec(ParseError("missing name", input))
    ELSE IF Len(parts) = 3 /\ ~ValidJSON(parts[3])
        THEN NoSpec(ParseError("invalid JSON parameters", input))
    ELSE [err |-> Nil,
          spec |-> << [Type |-> parts[1], Name |-> parts[2],
                       Parameters |-> IF Len(parts) = 3 THEN <<parts[3]>> ELSE <<>>] >>]

AppendSpec_Dedup(specs, rec) ==
    IF \E i \in 1..Len(specs) : specs[i].Type = rec.Type /\ specs[i].Name = rec.Name
    THEN specs
    ELSE Append(specs, rec)

\* The collection after a successful parse: the record goes to the end.
AppendSpec(specs, rec) == Append(specs, rec)

\* The raw values the command line gives --plugin.
SetInputs ==
    { <<"a", ":", "b">>,
      <<"c", ":", "d">>,
      <<"a", ":", "b", ":", "{", QUOTE, "k", QUOTE, ":", QUOTE, "x", ":", "y", QUOTE, "}">>,
      <<":", "b">>,
      <<"a">>,
      <<"a", ":", "b", ":", "{">> }

\* PluginSpecs.Set(raw), one occurrence of --plugin.
Set(input) ==
    /\ Len(setCalls) < MaxCalls
    /\ LET r == ParsePluginSpec(input) IN
        /\ PluginSpecs' = IF r.err = Nil THEN AppendSpec(PluginSpecs, r.spec[1])
                          ELSE PluginSpecs
        /\ ret' = r.err
    /\ setCalls' = Append(setCalls, input)
    /\ lastOp' = "Set"
    /\ UNCHANGED optionVars
    /\ UNCHANGED parserVars

NextPlugins == \E input \in SetInputs : Set(input)

SpecPlugins == Init /\ [][NextPlugins]_vars

\* The inputs of the parser: every string of at most MaxLen characters over a
\* letter, the separator, the quote and a digit, and longer ones with an object.
ParserAlphabet == {"t", COLON, QUOTE, "1"}

ParserInputs ==
    UNION {[1..n -> ParserAlphabet] : n \in 0..MaxLen} \cup SetInputs

InitParser ==
    /\ NewOptions
    /\ PluginInit
    /\ raw \in ParserInputs
    /\ parsed = <<>>

\* The parser applied to the input.
ParseStep ==
    /\ parsed = <<>>
    /\ parsed' = <<ParsePluginSpec(raw)>>
    /\ lastOp' = "ParsePluginSpec"
    /\ UNCHANGED <<raw, ret>>
    /\ UNCHANGED optionVars
    /\ UNCHANGED pluginVars

NextParser == ParseStep

SpecParser == InitParser /\ [][NextParser]_vars

(***************************************************************************)
(* Properties of the options lifecycle, checked under Spec.                *)
(***************************************************************************)
ValidPort(p) == 1 <= p /\ p <= 65535

AllPortsValid == ValidPort(GRPCPort) /\ ValidPort(GRPCHealthPort) /\ ValidPort(MetricsPort)

PairwiseDistinct ==
    /\ GRPCPort # GRPCHealthPort
    /\ GRPCPort # MetricsPort
    /\ GRPCHealthPort # MetricsPort

ZapRegistered == fs.bound /\ ZapLogLevelFlagName \in DOMAIN fs.Changed

\* C1: server Validate returns nil if and only if the three ports lie in
\* [1, 65535], are pairwise distinct, and LogVerbosity >= 0; so after a
\* successful Validate the ports are in range and pairwise distinct.
C1_ValidateNilIff ==
    lastOp = "ServerValidate" =>
        /\ ret = Nil <=> (AllPortsValid /\ PairwiseDistinct /\ LogVerbosity >= 0)
        /\ ret = Nil => (AllPortsValid /\ PairwiseDistinct)

C1_Witness ==
    /\ lastOp = "ServerValidate"
    /\ ret = Nil
    /\ GRPCPort = 1
    /\ GRPCHealthPort = 9005
    /\ MetricsPort = 65535
    /\ LogVerbosity = 0

\* C2: a Complete that finds the zap-log-level flag registered and not marked
\* changed sets the backend level to exactly -1 * LogVerbosity, for every
\* verbosity, and marks the flag changed.
C2_LevelIsNegatedVerbosity ==
    [][(lastOp' = "Complete" /\ ZapRegistered /\ ~fs.Changed[ZapLogLevelFlagName]) =>
          /\ ZapLevel' = <<-1 * LogVerbosity>>
          /\ fs'.Changed[ZapLogLevelFlagName]]_vars

\* C3: when --zap-log-level was given on the command line, Complete leaves the
\* backend level at the explicit value and LogVerbosity as it was, and the flag
\* is marked changed afterwards.
C3_ExplicitLevelWins ==
    [][(lastOp' = "Complete" /\ zapArg # <<>>) =>
          /\ ZapLevel = zapArg
          /\ ZapLevel' = zapArg
          /\ LogVerbosity' = LogVerbosity
          /\ fs'.Changed[ZapLogLevelFlagName]]_vars

C3_Witness ==
    /\ lastOp = "Complete"
    /\ nComplete = 1
    /\ zapArg = <<0>>
    /\ ZapLevel = <<0>>
    /\ LogVerbosity = 3
    /\ fs.Changed[VerbosityFlag]
    /\ fs.Changed[ZapLogLevelFlagName]

\* C4: if a port is outside [1, 65535], server Validate returns the range error
\* of the first such port in the order grpc-port, grpc-health-port,
\* metrics-port, whether or not ports collide or LogVerbosity is negative.
C4_FirstRangeError ==
    (lastOp = "ServerValidate" /\ ~AllPortsValid) =>
        ret = IF ~ValidPort(GRPCPort)
                THEN [kind |-> "range", flag |-> "grpc-port", values |-> <<GRPCPort>>]
              ELSE IF ~ValidPort(GRPCHealthPort)
                THEN [kind |-> "range", flag |-> "grpc-health-port",
                      values |-> <<GRPCHealthPort>>]
              ELSE [kind |-> "range", flag |-> "metrics-port", values |-> <<MetricsPort>>]

C4_Witness ==
    /\ lastOp = "ServerValidate"
    /\ GRPCPort = 1
    /\ GRPCHealthPort = 0
    /\ MetricsPort = 0
    /\ LogVerbosity = -1
    /\ ret = [kind |-> "range", flag |-> "grpc-health-port", values |-> <<0>>]

\* C5: if all three ports are in [1, 65535] and two of them are equal, server
\* Validate returns the conflict error holding all three port values, whichever
\* pair collides and whatever LogVerbosity is.
C5_ConflictNamesAllThree ==
    (lastOp = "ServerValidate" /\ AllPortsValid /\ ~PairwiseDistinct) =>
        ret = [kind |-> "conflict", flag |-> "",
               values |-> <<GRPCPort, GRPCHealthPort, MetricsPort>>]

C5_Witness ==
    /\ lastOp = "ServerValidate"
    /\ GRPCPort = 9004
    /\ GRPCHealthPort = 9005
    /\ MetricsPort = 9004
    /\ LogVerbosity = -1
    /\ ret.kind = "conflict"
    /\ ret.values = <<9004, 9005, 9004>>

\* C6: logging Validate returns ErrInvalidLogVerbosity if and only if
\* LogVerbosity < 0 and nil otherwise, before or after Complete; server Validate
\* returns the same value when its port checks pass.
C6_VerbositySentinel ==
    /\ lastOp = "LoggingValidate" =>
        /\ ret = ErrInvalidLogVerbosity <=> LogVerbosity < 0
        /\ ret = Nil <=> LogVerbosity >= 0
    /\ (lastOp = "ServerValidate" /\ AllPortsValid /\ PairwiseDistinct) =>
        /\ ret = ErrInvalidLogVerbosity <=> LogVerbosity < 0
        /\ ret = Nil <=> LogVerbosity >= 0

C6_Witness ==
    /\ lastOp = "ServerValidate"
    /\ ret = ErrInvalidLogVerbosity
    /\ nComplete >= 1
    /\ ZapLevel = <<1>>
    /\ LogVerbosity = -1

\* C9 as stated: no Complete and no Validate changes any state of the flag set.
C9_FlagSetNeverMutated ==
    [][lastOp' \in {"Complete", "LoggingValidate", "ServerValidate"} => fs' = fs]_vars

\* C9, amended: Validate leaves the flag set as it is; Complete changes at most
\* the changed marker of the zap-log-level flag, from false to true, and changes
\* neither the flags registered nor the marker of any other flag.
C9_OnlyZapMarkerSet ==
    [][lastOp' \in {"Complete", "LoggingValidate", "ServerValidate"} =>
          /\ lastOp' # "Complete" => fs' = fs
          /\ fs'.bound = fs.bound
          /\ DOMAIN fs'.Changed = DOMAIN fs.Changed
          /\ \A n \in DOMAIN fs.Changed :
                \/ fs'.Changed[n] = fs.Changed[n]
                \/ n = ZapLogLevelFlagName /\ ~fs.Changed[n] /\ fs'.Changed[n]]_vars

C9_Witness ==
    /\ lastOp = "Complete"
    /\ ZapRegistered
    /\ zapArg = <<>>
    /\ fs.Changed[ZapLogLevelFlagName]
    /\ ~fs.Changed[VerbosityFlag]
    /\ ~fs.Changed[GrpcPortFlag]

\* C10: once Complete has returned, the zap-log-level flag is marked changed,
\* and every later Complete changes nothing: the backend level is not derived
\* again, also when LogVerbosity has changed in between.
C10_CompleteOnce ==
    [][/\ nComplete' >= 1 => fs'.Changed[ZapLogLevelFlagName]
       /\ (lastOp' = "Complete" /\ nComplete >= 1) =>
            /\ ZapLevel' = ZapLevel
            /\ fs' = fs
            /\ LogVerbosity' = LogVerbosity]_vars

C10_Witness ==
    /\ lastOp = "Complete"
    /\ nComplete >= 2
    /\ zapArg = <<>>
    /\ ZapLevel = <<0>>
    /\ LogVerbosity = 3

(***************************************************************************)
(* Properties of the --plugin flag, checked under SpecPlugins and          *)
(* SpecParser.                                                              *)
(***************************************************************************)
\* The records of the calls that parsed, in call order.
RECURSIVE SucceededRecords(_)
SucceededRecords(calls) ==
    IF calls = <<>> THEN <<>>
    ELSE ParsePluginSpec(Head(calls)).spec \o SucceededRecords(Tail(calls))

\* C7: after any sequence of Set calls on an initially empty collection, the
\* collection is, in call order, the parsed records of exactly the calls that
\* succeeded (no deduplication), and a call returns an error exactly when it
\* produced no record.
C7_CollectionIsSucceededCalls ==
    /\ PluginSpecs = SucceededRecords(setCalls)
    /\ lastOp = "Set" =>
        (ret = Nil <=> ParsePluginSpec(setCalls[Len(setCalls)]).spec # <<>>)

C7_Witness ==
    /\ setCalls = << <<"a", ":", "b">>, <<":", "b">>, <<"a", ":", "b">> >>
    /\ Len(PluginSpecs) = 2
    /\ PluginSpecs[1] = PluginSpecs[2]
    /\ PluginSpecs[1].Type = <<"a">>
    /\ PluginSpecs[1].Name = <<"b">>
    /\ ret = Nil

ColonsOf(s) == {i \in 1..Len(s) : s[i] = ":"}

Least(S) == CHOOSE x \in S : \A y \in S : x <= y

Record(T, N, P) == [err |-> Nil, spec |-> << [Type |-> T, Name |-> N, Parameters |-> P] >>]

\* C8: an input T:N with non-empty T and N and no further ':' yields
\* {T, N, absent}; an input T:N:J with non-empty T and N and well-formed JSON J
\* yields {T, N, J}, where J is everything after the second ':'; an input with
\* an empty type segment or without a name segment is rejected with no record.
C8_ParserSegments ==
    parsed # <<>> =>
        LET r == parsed[1]
            cs == ColonsOf(raw)
        IN
        /\ (raw = <<>> \/ raw[1] = ":") => (r.err # Nil /\ r.spec = <<>>)
        /\ cs = {} => (r.err # Nil /\ r.spec = <<>>)
        /\ (cs # {} /\ raw[1] # ":") =>
            LET i == Least(cs)
                later == cs \ {i}
            IN
            /\ (later = {} /\ i < Len(raw)) =>
                r = Record(SubSeq(raw, 1, i - 1), SubSeq(raw, i + 1, Len(raw)), <<>>)
            /\ later # {} =>
                LET j == Least(later)
                    J == SubSeq(raw, j + 1, Len(raw))
                IN
                (j > i + 1 /\ ValidJSON(J)) =>
                    r = Record(SubSeq(raw, 1, i - 1), SubSeq(raw, i + 1, j - 1), <<J>>)

C8_Witness ==
    /\ parsed # <<>>
    /\ raw = <<"t", ":", "1", ":", "\"", ":", "\"">>
    /\ parsed[1].err = Nil
    /\ parsed[1].spec[1].Type = <<"t">>
    /\ parsed[1].spec[1].Name = <<"1">>
    /\ parsed[1].spec[1].Parameters = << <<"\"", ":", "\"">> >>

====
